---------------------------- MODULE Spec2Model ----------------------------
(***************************************************************************)
(* The conversation tracking engine of the meeting assistant:              *)
(* EnhancedConversationStorageManager (services/conversationStorage.ts,    *)
(* kept as src/unnamed/part_004) with its configuration DEFAULT_CONFIG     *)
(* (src/src/services/summarizerService.ts).                                *)
(*                                                                         *)
(* Time is in milliseconds.  A time value carries its JavaScript type: a   *)
(* Date object, an ISO string (what JSON holds) or undefined.  The manager *)
(* is single threaded: each public method, timer callback and page load is *)
(* one atomic action.  Methods are operators on a record w (the "world")   *)
(* holding every variable, so that a method that calls other methods is    *)
(* the composition of their operators.                                     *)
(***************************************************************************)
EXTENDS Integers, Sequences, FiniteSets, TLC

VARIABLES
    now,              \* the wall clock: Date.now()
    storage,          \* this.storage: currentSessionId, sessions, version
    lastSummaryTime,  \* this.lastSummaryTime
    localStorage,     \* the item 'enhanced_conversation_storage'
    quotaExceeded,    \* whether localStorage.setItem throws QuotaExceededError
    autoSaveInterval, \* this.autoSaveInterval: the setInterval timer
    debounceTimeout,  \* the timeout variable captured by debounce()
    retryTimeouts,    \* the pending setTimeout(() => saveToStorage(), 1000)
    nextId,           \* the ids generateId has handed out
    threw,            \* the last handler ended by throwing
    returned,         \* what the last continueSession call returned
    steps,            \* the steps the last addMessage call entered, in order
    held,             \* the session a caller got from getCurrentSession()
    compared,         \* the last two feature sets compared, and the results
    lastOp,           \* the last handler that ran
    setItemCalls,     \* localStorage.setItem calls made by the last handler
    burstStart,       \* when the current burst of mutating calls began
    burstWrites,      \* localStorage.setItem calls made during that burst
    calls             \* public calls made so far

vars == <<now, storage, lastSummaryTime, localStorage, quotaExceeded,
          autoSaveInterval, debounceTimeout, retryTimeouts, nextId, threw,
          returned, steps, held, compared,
          lastOp, setItemCalls, burstStart, burstWrites, calls>>

-----------------------------------------------------------------------------
(* Program constants *)

DebounceWait == 500
RetryDelay == 1000
AutoSaveIntervalMs == 5000
RetainedSessions == 10
CompressionThreshold == 50
MinMessagesPerGroup == 3
TimeGroupingMinutes == 2
RatioTenths == 3
IntervalMinutes == 1
MaxKeyPoints == 5
SimilarityTenths == 3
RecencyWindowMs == 30000
LongMessageWords == 20
LargeMessageCount == 200
MinuteMs == 60 * 1000

(* Bounds of the model *)

MaxCalls == 3
MaxNow == 30000
MaxCounted == 3
MaxCompressCalls == 4
MaxCompressNow == 150000
MaxRecencyNow == 30000
MaxQuotaCalls == 4
MaxSessions == 12
MaxQuotaNow == 2000
MaxTimerCalls == 2
MaxTimerNow == 6000
MaxSummaryCalls == 4
MaxSummaryNow == 180000
MaxLoadCalls == 3
MaxLookupCalls == 3
ScenarioTick == 20000
MaxScenarioNow == 140000
MaxKeyPointCalls == 4
KeyPointBurst == 6
MaxWindowMessages == 14
MaxKeyPointNow == 120000
ScenarioMessages == 60
ScenarioSpacing == 1000
MaxSnapshotCalls == 3
MaxAutomaticCalls == 2
MaxAutomaticNow == 120000
MaxPassCalls == 5
MaxPassNow == 240000
MaxPassMessages == 53
MaxRestartCalls == 5
MaxRestartNow == 120000
MaxLifecycleCalls == 3
MaxPersistCalls == 4
MaxPersistNow == 120000
MaxRecoveryCalls == 1
MaxRecoveryNow == 6000
BurstSize == 48
MaxMessages == 52
MaxHeavyCalls == 7
MaxHeavyNow == 60000
MaxHeavyMessages == 241
MaxCallsCounted ==
    MaxCalls + MaxCompressCalls + MaxQuotaCalls + MaxTimerCalls + MaxSummaryCalls
    + MaxLoadCalls + MaxLookupCalls + MaxKeyPointCalls + MaxSnapshotCalls
    + MaxAutomaticCalls + MaxPassCalls + MaxRestartCalls
    + MaxLifecycleCalls + MaxPersistCalls + MaxRecoveryCalls + MaxHeavyCalls
MaxRetryPending == 2
MaxRecursion == 2

-----------------------------------------------------------------------------
(* Time values *)

Date(t) == [k |-> "Date", t |-> t]
IsoString(t) == [k |-> "string", t |-> t]
Undefined == [k |-> "undefined", t |-> 0]

IsDate(v) == v.k = "Date"

\* Date.prototype.toISOString, applied by serializeDates to every Date
serializeDate(v) == IF v.k = "Date" THEN IsoString(v.t) ELSE v

\* loadFromStorage, a required timestamp: a string is parsed, anything else
\* (JSON holds no Date) becomes new Date()
migrateTime(v, clock) == IF v.k = "string" THEN Date(v.t) ELSE Date(clock)

\* loadFromStorage, endTime: kept when absent, parsed when a string
migrateEndTime(v) ==
    IF v.k = "undefined" THEN v
    ELSE IF v.k = "string" THEN Date(v.t)
    ELSE Undefined

-----------------------------------------------------------------------------
(* Sequences *)

Range(s) == {s[i] : i \in DOMAIN s}

IsPrefix(s, t) == Len(s) <= Len(t) /\ SubSeq(t, 1, Len(s)) = s

\* messages.sort((a, b) => a.timestamp.getTime() - b.timestamp.getTime()):
\* ascending and stable, s[j] ahead of s[i] when it is earlier, or as early
\* and ahead of it in s
SortByTimestamp(s) ==
    LET rank == [i \in DOMAIN s |->
                   Cardinality({j \in DOMAIN s :
                      \/ s[j].timestamp.t < s[i].timestamp.t
                      \/ s[j].timestamp.t = s[i].timestamp.t /\ j < i}) + 1]
    IN [k \in DOMAIN s |-> s[CHOOSE i \in DOMAIN s : rank[i] = k]]

RECURSIVE SetToSeq(_)
\* the numbers of a set in increasing order
SetToSeq(S) ==
    IF S = {} THEN << >>
    ELSE LET m == CHOOSE x \in S : \A y \in S : x <= y
         IN <<m>> \o SetToSeq(S \ {m})

RECURSIVE SumSeq(_)
\* reduce((sum, x) => sum + x, 0), summed by halves
SumSeq(s) ==
    IF Len(s) = 0 THEN 0
    ELSE IF Len(s) = 1 THEN s[1]
    ELSE SumSeq(SubSeq(s, 1, Len(s) \div 2))
         + SumSeq(SubSeq(s, Len(s) \div 2 + 1, Len(s)))

-----------------------------------------------------------------------------
(* Message texts.  A text is known by what the code reads of it. *)

NoTraits ==
    [len |-> 0, words |-> 1, qmark |-> FALSE, lead |-> "", excl |-> FALSE,
     polite |-> FALSE, opinion |-> FALSE, lines |-> 1, capitals |-> FALSE,
     requests |-> FALSE, seeking |-> FALSE]

\* a statement of more than 20 words
LongText ==
    "Let me walk you through the plan for the next quarter in some detail so that everyone here knows what to expect"

\* what the code reads of a text: text.length, calculateWordCount(text)
\* (''.trim().split(/\s+/) is [''], one word) and the patterns tested by
\* analyzeMessageCharacteristics
Traits(text) ==
    CASE text = "" -> NoTraits
      [] text = "ok" -> [NoTraits EXCEPT !.len = 2]
      [] text = "Hello, how are you today?" ->
            [NoTraits EXCEPT !.len = 25, !.words = 5, !.qmark = TRUE]
      [] text = "I am doing well, thank you!" ->
            [NoTraits EXCEPT !.len = 27, !.words = 6, !.excl = TRUE,
                             !.polite = TRUE]
      [] text = "What is next?" ->
            [NoTraits EXCEPT !.len = 13, !.words = 3, !.qmark = TRUE,
                             !.lead = "what"]
      [] text = LongText -> [NoTraits EXCEPT !.len = 111, !.words = 22]
      [] OTHER -> NoTraits

calculateWordCount(text) == Traits(text).words

analyzeMessageCharacteristics(text) ==
    LET c == Traits(text) IN
      (IF c.words < 10 THEN {"short_messages"}
       ELSE IF c.words < 30 THEN {"medium_messages"}
       ELSE {"long_messages"})
      \cup (IF c.qmark THEN {"asks_questions"} ELSE {})
      \cup (IF c.qmark /\ c.lead = "how" THEN {"how_questions"} ELSE {})
      \cup (IF c.qmark /\ c.lead = "what" THEN {"what_questions"} ELSE {})
      \cup (IF c.qmark /\ c.lead = "why" THEN {"why_questions"} ELSE {})
      \cup (IF c.qmark /\ c.lead = "when" THEN {"when_questions"} ELSE {})
      \cup (IF c.qmark /\ c.lead = "where" THEN {"where_questions"} ELSE {})
      \cup (IF c.excl THEN {"expressive"} ELSE {})
      \cup (IF c.polite THEN {"polite"} ELSE {})
      \cup (IF c.opinion THEN {"opinionated"} ELSE {})
      \cup (IF c.lines > 1 THEN {"multi_line"} ELSE {})
      \cup (IF c.capitals THEN {"uses_capitals"} ELSE {})
      \cup (IF c.requests THEN {"requests"} ELSE {})
      \cup (IF c.seeking THEN {"seeking_info"} ELSE {})

\* the numerator alone over the size of the first set
calculateCharacteristicSimilarityOverFirst(characteristicsA, characteristicsB) ==
    <<Cardinality(characteristicsA \cap characteristicsB),
      Cardinality(characteristicsA)>>

\* calculateCharacteristicSimilarity: intersection.size / union.size, kept as
\* the pair <<numerator, denominator>>
calculateCharacteristicSimilarity(characteristicsA, characteristicsB) ==
    <<Cardinality(characteristicsA \cap characteristicsB),
      Cardinality(characteristicsA \cup characteristicsB)>>

\* p > q for two such fractions; 0/0 is NaN, which compares false
FracGreater(p, q) == p[2] # 0 /\ q[2] # 0 /\ p[1] * q[2] > q[1] * p[2]

\* p >= similarityThreshold (0.3)
MeetsThreshold(p) == p[2] # 0 /\ 10 * p[1] >= SimilarityTenths * p[2]

-----------------------------------------------------------------------------
(* The world: every variable, as one record *)

W ==
    [now |-> now, storage |-> storage, lastSummaryTime |-> lastSummaryTime,
     localStorage |-> localStorage, quotaExceeded |-> quotaExceeded,
     autoSaveInterval |-> autoSaveInterval,
     debounceTimeout |-> debounceTimeout, retryTimeouts |-> retryTimeouts,
     nextId |-> nextId, threw |-> threw, returned |-> returned,
     steps |-> steps, held |-> held, compared |-> compared,
     setItemCalls |-> setItemCalls]

NoSession == 0
NoTimer == -1

\* a session id that names a property every object inherits ("constructor",
\* "toString", "__proto__"): sessions[id] is not a session, and is truthy
InheritedKey == -2

\* the caller holds no session
NoHeld == [ref |-> NoSession, seen |-> NoSession]

\* the name a user types for a speaker
TypedName == 0

\* the default structure returned by loadFromStorage
DefaultStorage ==
    [currentSessionId |-> NoSession, sessions |-> << >>, version |-> "2.0"]

\* localStorage.getItem returns null
NoItem == [data |-> [DefaultStorage EXCEPT !.version = "null"],
           malformed |-> {}, nullRecords |-> {}]

RemoveKeys(f, K) == [k \in DOMAIN f \ K |-> f[k]]

\* this.storage.sessions[sessionId] is truthy
Truthy(sessions, sessionId) ==
    sessionId \in DOMAIN sessions \/ sessionId = InheritedKey

getCurrentSessionId(w) ==
    IF w.storage.currentSessionId = NoSession THEN NoSession
    ELSE IF Truthy(w.storage.sessions, w.storage.currentSessionId)
    THEN w.storage.currentSessionId
    ELSE NoSession

\* the session value getCurrentSession returns, NoSession for null,
\* InheritedKey for the inherited property's value
getCurrentSession(w) ==
    IF getCurrentSessionId(w) \in {NoSession, InheritedKey}
    THEN getCurrentSessionId(w)
    ELSE w.storage.sessions[getCurrentSessionId(w)]

-----------------------------------------------------------------------------
(* Persistence *)

serializeMessage(m) == [m EXCEPT !.timestamp = serializeDate(@)]

serializeSummary(s) ==
    [s EXCEPT !.timestamp = serializeDate(@),
              !.timeRange = [start |-> serializeDate(@.start),
                             end |-> serializeDate(@.end)]]

serializeSpeaker(s) ==
    [s EXCEPT !.firstDetected = serializeDate(@),
              !.lastActive = serializeDate(@)]

serializeGroup(g) ==
    [g EXCEPT !.timeRange = [start |-> serializeDate(@.start),
                             end |-> serializeDate(@.end)]]

serializeSession(s) ==
    [s EXCEPT !.startTime = serializeDate(@),
              !.endTime = serializeDate(@),
              !.messages = [i \in DOMAIN @ |-> serializeMessage(@[i])],
              !.summaries = [i \in DOMAIN @ |-> serializeSummary(@[i])],
              !.speakers = [i \in DOMAIN @ |-> serializeSpeaker(@[i])],
              !.compressedHistory = [i \in DOMAIN @ |-> serializeGroup(@[i])]]

\* serializeDates(deepClone(this.storage)): every Date becomes its ISO string
serializeDates(st) ==
    [st EXCEPT !.sessions = [id \in DOMAIN @ |-> serializeSession(@[id])]]

migrateSummary(s, clock) ==
    [s EXCEPT !.timestamp = migrateTime(@, clock),
              !.timeRange = [start |-> migrateTime(@.start, clock),
                             end |-> migrateTime(@.end, clock)]]

\* loadFromStorage, one session record: the try block, and the catch block
\* for a record whose migration throws
migrateSession(s, throws, clock) ==
    IF throws
    THEN [s EXCEPT !.startTime = Date(clock), !.endTime = Undefined,
                   !.messages = << >>, !.summaries = << >>]
    ELSE [s EXCEPT
            !.startTime = migrateTime(@, clock),
            !.endTime = migrateEndTime(@),
            !.messages = [i \in DOMAIN @ |->
                            [@[i] EXCEPT !.timestamp = migrateTime(@, clock)]],
            !.summaries = [i \in DOMAIN @ |-> migrateSummary(@[i], clock)]]

\* loadFromStorage: the value of this.storage for a stored item.  For a
\* record that is null the try block throws and so does the catch block
\* (session.startTime = ... on null): the outer catch returns the default
loadFromStorage(item, clock) ==
    IF item.data.version = "2.0"
    THEN IF item.nullRecords # {}
         THEN DefaultStorage
         ELSE [item.data EXCEPT
                 !.sessions = [id \in DOMAIN @ |->
                                 migrateSession(@[id], id \in item.malformed,
                                                clock)]]
    ELSE DefaultStorage

RECURSIVE InsertByStartDesc(_, _, _)
InsertByStartDesc(ids, id, sessions) ==
    IF ids = << >> THEN <<id>>
    ELSE IF sessions[ids[Len(ids)]].startTime.t >= sessions[id].startTime.t
    THEN Append(ids, id)
    ELSE Append(InsertByStartDesc(SubSeq(ids, 1, Len(ids) - 1), id, sessions),
                ids[Len(ids)])

RECURSIVE SortByStartDesc(_, _)
\* ids.sort((a, b) => bTime - aTime): most recently started first, stable
SortByStartDesc(ids, sessions) ==
    IF ids = << >> THEN << >>
    ELSE InsertByStartDesc(SortByStartDesc(SubSeq(ids, 1, Len(ids) - 1), sessions),
                           ids[Len(ids)], sessions)

RECURSIVE saveToStorage(_)
RECURSIVE handleStorageError(_)
RECURSIVE cleanupOldSessions(_)

\* cleanupOldSessions keeping the first started sessions
cleanupOldSessionsKeepingOldest(w) ==
    LET sessionIds == SortByStartDesc(SetToSeq(DOMAIN w.storage.sessions),
                                      w.storage.sessions)
    IN IF Len(sessionIds) > RetainedSessions
       THEN LET sessionsToRemove ==
                    {sessionIds[i] :
                        i \in 1..(Len(sessionIds) - RetainedSessions)}
                removed == [w EXCEPT
                    !.storage.sessions = RemoveKeys(@, sessionsToRemove),
                    !.storage.currentSessionId =
                        IF @ \in sessionsToRemove THEN NoSession ELSE @]
            IN saveToStorage(removed)
       ELSE w

cleanupOldSessions(w) ==
    LET sessionIds == SortByStartDesc(SetToSeq(DOMAIN w.storage.sessions),
                                      w.storage.sessions)
    IN IF Len(sessionIds) > RetainedSessions
       THEN LET sessionsToRemove ==
                    {sessionIds[i] : i \in (RetainedSessions + 1)..Len(sessionIds)}
                removed == [w EXCEPT
                    !.storage.sessions = RemoveKeys(@, sessionsToRemove),
                    !.storage.currentSessionId =
                        IF @ \in sessionsToRemove THEN NoSession ELSE @]
            IN saveToStorage(removed)
       ELSE w

\* handleStorageError for a QuotaExceededError
handleStorageError(w) ==
    LET cleaned == cleanupOldSessions(w)
    IN [cleaned EXCEPT !.retryTimeouts = Append(@, cleaned.now + RetryDelay)]

\* saveToStorage scheduling the retry after a write that succeeded too
saveToStorageAlwaysRetrying(w) ==
    LET called == [w EXCEPT !.setItemCalls = @ + 1]
    IN IF w.quotaExceeded
       THEN handleStorageError(called)
       ELSE [called EXCEPT
               !.localStorage = [data |-> serializeDates(w.storage),
                                 malformed |-> {}, nullRecords |-> {}],
               !.retryTimeouts = Append(@, w.now + RetryDelay)]

saveToStorage(w) ==
    LET called == [w EXCEPT !.setItemCalls = @ + 1]
    IN IF w.quotaExceeded
       THEN handleStorageError(called)
       ELSE [called EXCEPT
               !.localStorage = [data |-> serializeDates(w.storage),
                                 malformed |-> {}, nullRecords |-> {}]]

-----------------------------------------------------------------------------
(* Sessions *)

\* the handler's reference `session`: the same object as the store's entry
\* while the store still holds the session; after cleanupOldSessions deleted
\* the entry, the handler goes on with the detached object
Put(w, s) ==
    IF s.sessionId \in DOMAIN w.storage.sessions
    THEN [w EXCEPT !.storage.sessions[s.sessionId] = s]
    ELSE w

\* currentSession.endTime = new Date(); currentSession.isActive = false;
\* on an inherited property's value the assignments change no session
EndCurrent(w) ==
    IF getCurrentSessionId(w) \in {NoSession, InheritedKey} THEN w
    ELSE [w EXCEPT !.storage.sessions[getCurrentSessionId(w)] =
                      [@ EXCEPT !.endTime = Date(w.now), !.isActive = FALSE]]

\* the stored sessions, most recently started first
getAllSessions(w) ==
    LET ids == SortByStartDesc(SetToSeq(DOMAIN w.storage.sessions),
                               w.storage.sessions)
    IN [k \in DOMAIN ids |-> w.storage.sessions[ids[k]]]

\* startNewSession without the block that ends the current session
startNewSessionLeavingPrevious(w) ==
    LET sessionId == w.nextId + 1
        newSession ==
            [sessionId |-> sessionId, startTime |-> Date(w.now),
             endTime |-> Undefined, messages |-> << >>, summaries |-> << >>,
             speakers |-> << >>, isActive |-> TRUE,
             compressedHistory |-> << >>]
    IN saveToStorage(
         [w EXCEPT
            !.nextId = sessionId,
            !.storage.currentSessionId = sessionId,
            !.storage.sessions = @ @@ (sessionId :> newSession),
            !.lastSummaryTime = Date(w.now)])

startNewSession(w) ==
    LET ended == EndCurrent(w)
        sessionId == w.nextId + 1
        newSession ==
            [sessionId |-> sessionId, startTime |-> Date(w.now),
             endTime |-> Undefined, messages |-> << >>, summaries |-> << >>,
             speakers |-> << >>, isActive |-> TRUE,
             compressedHistory |-> << >>]
    IN saveToStorage(
         [ended EXCEPT
            !.nextId = sessionId,
            !.storage.currentSessionId = sessionId,
            !.storage.sessions = @ @@ (sessionId :> newSession),
            !.lastSummaryTime = Date(w.now)])

\* continueSession reactivating the target before it ends the current
\* session
continueSessionEndingLast(w, sessionId) ==
    IF Truthy(w.storage.sessions, sessionId)
    THEN LET reactivated ==
                 IF sessionId \in DOMAIN w.storage.sessions
                 THEN [w EXCEPT
                         !.storage.sessions[sessionId] =
                             [@ EXCEPT !.isActive = TRUE, !.endTime = Undefined]]
                 ELSE w
         IN saveToStorage(
              [EndCurrent(reactivated) EXCEPT
                 !.storage.currentSessionId = sessionId,
                 !.lastSummaryTime = Date(w.now),
                 !.returned = "true"])
    ELSE [w EXCEPT !.returned = "false"]

\* continueSession without this.storage.sessions[sessionId].endTime = undefined
continueSessionKeepingEndTime(w, sessionId) ==
    IF Truthy(w.storage.sessions, sessionId)
    THEN LET ended == EndCurrent(w)
             current == [ended EXCEPT
                           !.storage.currentSessionId = sessionId,
                           !.lastSummaryTime = Date(w.now),
                           !.returned = "true"]
         IN saveToStorage(
              IF sessionId \in DOMAIN w.storage.sessions
              THEN [current EXCEPT
                      !.storage.sessions[sessionId] =
                          [@ EXCEPT !.isActive = TRUE]]
              ELSE current)
    ELSE [w EXCEPT !.returned = "false"]

continueSession(w, sessionId) ==
    IF Truthy(w.storage.sessions, sessionId)
    THEN LET ended == EndCurrent(w)
             current == [ended EXCEPT
                           !.storage.currentSessionId = sessionId,
                           !.lastSummaryTime = Date(w.now),
                           !.returned = "true"]
         IN saveToStorage(
              IF sessionId \in DOMAIN w.storage.sessions
              THEN [current EXCEPT
                      !.storage.sessions[sessionId] =
                          [@ EXCEPT !.isActive = TRUE, !.endTime = Undefined]]
              ELSE current)
    ELSE [w EXCEPT !.returned = "false"]

\* endCurrentSession without this.storage.currentSessionId = null
endCurrentSessionStayingCurrent(w) ==
    IF getCurrentSessionId(w) = NoSession THEN w
    ELSE saveToStorage(EndCurrent(w))

endCurrentSession(w) ==
    IF getCurrentSessionId(w) = NoSession THEN w
    ELSE saveToStorage([EndCurrent(w) EXCEPT
                           !.storage.currentSessionId = NoSession])

RECURSIVE startNewSessions(_, _)
\* n calls of startNewSession in a row, in the same millisecond
startNewSessions(w, n) ==
    IF n = 0 \/ w.threw THEN w
    ELSE startNewSessions(startNewSession(w), n - 1)

-----------------------------------------------------------------------------
(* Speaker attribution *)

\* the index of the best matching speaker: the first of those with the
\* greatest similarity
BestMatch(speakers, characteristics) ==
    LET sim(i) == calculateCharacteristicSimilarity(
                      speakers[i].characteristics, characteristics)
    IN CHOOSE i \in DOMAIN speakers :
         /\ \A j \in DOMAIN speakers : ~FracGreater(sim(j), sim(i))
         /\ \A j \in 1..(i - 1) : FracGreater(sim(i), sim(j))

\* detectSpeaker without the check of the last message's age
detectSpeakerWithoutRecency(session, content, clock) ==
    LET characteristics == analyzeMessageCharacteristics(content)
        speakers == session.speakers
    IN IF Len(speakers) = 0
       THEN [speakerId |-> 1, confidence |-> 10,
             characteristics |-> characteristics, isNewSpeaker |-> TRUE]
       ELSE
         LET best == BestMatch(speakers, characteristics)
             similarity == calculateCharacteristicSimilarity(
                               speakers[best].characteristics, characteristics)
         IN IF MeetsThreshold(similarity)
            THEN [speakerId |-> speakers[best].speakerId,
                  confidence |-> (10 * similarity[1]) \div similarity[2],
                  characteristics |-> characteristics, isNewSpeaker |-> FALSE]
            ELSE [speakerId |-> Len(speakers) + 1, confidence |-> 10,
                  characteristics |-> characteristics, isNewSpeaker |-> TRUE]

detectSpeaker(session, content, clock) ==
    LET characteristics == analyzeMessageCharacteristics(content)
        speakers == session.speakers
        messages == session.messages
    IN IF Len(speakers) = 0
       THEN [speakerId |-> 1, confidence |-> 10,
             characteristics |-> characteristics, isNewSpeaker |-> TRUE]
       ELSE
         LET best == BestMatch(speakers, characteristics)
             similarity == calculateCharacteristicSimilarity(
                               speakers[best].characteristics, characteristics)
         IN IF MeetsThreshold(similarity)
            THEN [speakerId |-> speakers[best].speakerId,
                  confidence |-> (10 * similarity[1]) \div similarity[2],
                  characteristics |-> characteristics, isNewSpeaker |-> FALSE]
            ELSE IF /\ Len(messages) > 0
                    /\ clock - messages[Len(messages)].timestamp.t
                          < RecencyWindowMs
            THEN [speakerId |-> messages[Len(messages)].speakerId,
                  confidence |-> 8,
                  characteristics |-> characteristics, isNewSpeaker |-> FALSE]
            ELSE [speakerId |-> Len(speakers) + 1, confidence |-> 10,
                  characteristics |-> characteristics, isNewSpeaker |-> TRUE]

\* ensureSpeakerExists putting the message's characteristics in place of the
\* speaker's
ensureSpeakerExistsReplacing(session, speakerId, detectionResult, clock) ==
    LET exists == \E i \in DOMAIN session.speakers :
                      session.speakers[i].speakerId = speakerId
        newSpeaker ==
            [speakerId |-> speakerId, name |-> Len(session.speakers) + 1,
             firstDetected |-> Date(clock), messageCount |-> 0,
             lastActive |-> Date(clock),
             characteristics |-> detectionResult.characteristics]
        speakers == IF exists THEN session.speakers
                    ELSE Append(session.speakers, newSpeaker)
        at == CHOOSE i \in DOMAIN speakers :
                 /\ speakers[i].speakerId = speakerId
                 /\ \A j \in 1..(i - 1) : speakers[j].speakerId # speakerId
    IN [session EXCEPT !.speakers =
          [speakers EXCEPT ![at] =
             [@ EXCEPT !.messageCount = @ + 1,
                       !.lastActive = Date(clock),
                       !.characteristics = detectionResult.characteristics]]]

ensureSpeakerExists(session, speakerId, detectionResult, clock) ==
    LET exists == \E i \in DOMAIN session.speakers :
                      session.speakers[i].speakerId = speakerId
        newSpeaker ==
            [speakerId |-> speakerId, name |-> Len(session.speakers) + 1,
             firstDetected |-> Date(clock), messageCount |-> 0,
             lastActive |-> Date(clock),
             characteristics |-> detectionResult.characteristics]
        speakers == IF exists THEN session.speakers
                    ELSE Append(session.speakers, newSpeaker)
        \* find: the first speaker with this id
        at == CHOOSE i \in DOMAIN speakers :
                 /\ speakers[i].speakerId = speakerId
                 /\ \A j \in 1..(i - 1) : speakers[j].speakerId # speakerId
    IN [session EXCEPT !.speakers =
          [speakers EXCEPT ![at] =
             [@ EXCEPT !.messageCount = @ + 1,
                       !.lastActive = Date(clock),
                       !.characteristics =
                           @ \cup detectionResult.characteristics]]]

-----------------------------------------------------------------------------
(* Timed summaries *)

\* the speaker ids of the messages without the check of speakerStatsMap.has:
\* one entry per message
SpeakersInOrderRepeated(messages) ==
    [k \in DOMAIN messages |-> messages[k].speakerId]

\* the speaker ids of the messages, each once, in order of first appearance
\* (the insertion order of the speakerStats map)
SpeakersInOrder(messages) ==
    LET firsts == SelectSeq([i \in DOMAIN messages |-> i],
                            LAMBDA i : \A j \in 1..(i - 1) :
                               messages[j].speakerId # messages[i].speakerId)
    IN [k \in DOMAIN firsts |-> messages[firsts[k]].speakerId]

\* one key point per question, one per other message of more than 20 words
KeyPointsOf(messages) ==
    LET noted == SelectSeq(messages, LAMBDA m : \/ m.isQuestion
                                                \/ m.wordCount > LongMessageWords)
    IN [k \in DOMAIN noted |->
          IF noted[k].isQuestion THEN [tag |-> "Q", messageId |-> noted[k].id]
          ELSE [tag |-> "bullet", messageId |-> noted[k].id]]

\* createSessionSummary without keyPoints.slice(0, maxKeyPoints)
createSessionSummaryUncapped(messages, timeRange, clock) ==
    LET ids == SpeakersInOrder(messages)
        of(id) == SelectSeq(messages, LAMBDA m : m.speakerId = id)
    IN [timestamp |-> Date(clock),
        timeRange |-> timeRange,
        keyPoints |-> KeyPointsOf(messages),
        speakerStats |->
            [i \in DOMAIN ids |->
               [speakerId |-> ids[i],
                messageCount |-> Len(of(ids[i])),
                wordCount |-> SumSeq([j \in DOMAIN of(ids[i]) |->
                                        of(ids[i])[j].wordCount]),
                questionsAsked |->
                    Len(SelectSeq(of(ids[i]), LAMBDA m : m.isQuestion)),
                activeTimeMs |-> timeRange.end.t - timeRange.start.t]]]

createSessionSummary(messages, timeRange, clock) ==
    LET ids == SpeakersInOrder(messages)
        of(id) == SelectSeq(messages, LAMBDA m : m.speakerId = id)
        keyPoints == KeyPointsOf(messages)
    IN [timestamp |-> Date(clock),
        timeRange |-> timeRange,
        keyPoints |-> SubSeq(keyPoints, 1,
                         IF Len(keyPoints) < MaxKeyPoints THEN Len(keyPoints)
                         ELSE MaxKeyPoints),
        speakerStats |->
            [i \in DOMAIN ids |->
               [speakerId |-> ids[i],
                messageCount |-> Len(of(ids[i])),
                wordCount |-> SumSeq([j \in DOMAIN of(ids[i]) |->
                                        of(ids[i])[j].wordCount]),
                questionsAsked |->
                    Len(SelectSeq(of(ids[i]), LAMBDA m : m.isQuestion)),
                activeTimeMs |-> timeRange.end.t - timeRange.start.t]]]

\* generateTimedSummary without the save that follows the push
generateTimedSummaryUnsaved(w, s) ==
    LET timeRange ==
            [start |-> IF w.lastSummaryTime.k = "undefined" THEN s.startTime
                       ELSE w.lastSummaryTime,
             end |-> Date(w.now)]
        messagesInPeriod ==
            SelectSeq(s.messages,
                      LAMBDA m : /\ m.timestamp.t >= timeRange.start.t
                                 /\ m.timestamp.t <= timeRange.end.t)
    IN IF Len(messagesInPeriod) = 0 THEN [w |-> w, s |-> s]
       ELSE LET summarized ==
                    [s EXCEPT !.summaries =
                        Append(@, createSessionSummary(messagesInPeriod,
                                                       timeRange, w.now))]
            IN [w |-> Put(w, summarized), s |-> summarized]

\* generateTimedSummary: the pair of the world and the handler's session
generateTimedSummary(w, s) ==
    LET timeRange ==
            [start |-> IF w.lastSummaryTime.k = "undefined" THEN s.startTime
                       ELSE w.lastSummaryTime,
             end |-> Date(w.now)]
        messagesInPeriod ==
            SelectSeq(s.messages,
                      LAMBDA m : /\ m.timestamp.t >= timeRange.start.t
                                 /\ m.timestamp.t <= timeRange.end.t)
    IN IF Len(messagesInPeriod) = 0 THEN [w |-> w, s |-> s]
       ELSE LET summarized ==
                    [s EXCEPT !.summaries =
                        Append(@, createSessionSummary(messagesInPeriod,
                                                       timeRange, w.now))]
            IN [w |-> saveToStorage(Put(w, summarized)), s |-> summarized]

\* checkForSummaryGeneration without the test of the elapsed minutes
checkForSummaryGenerationEveryCall(w, s) ==
    IF w.lastSummaryTime.k = "undefined"
    THEN [w |-> [w EXCEPT !.lastSummaryTime = s.startTime], s |-> s]
    ELSE LET r == generateTimedSummary(w, s)
         IN [r EXCEPT !.w.lastSummaryTime = Date(w.now)]

checkForSummaryGeneration(w, s) ==
    IF w.lastSummaryTime.k = "undefined"
    THEN [w |-> [w EXCEPT !.lastSummaryTime = s.startTime], s |-> s]
    ELSE IF w.now - w.lastSummaryTime.t >= IntervalMinutes * MinuteMs
    THEN LET r == generateTimedSummary(w, s)
         IN [r EXCEPT !.w.lastSummaryTime = Date(w.now)]
    ELSE [w |-> w, s |-> s]

-----------------------------------------------------------------------------
(* Context compression *)

\* [...messages].sort((a, b) => b.wordCount - a.wordCount)
SortByWordsDesc(s) ==
    LET rank == [i \in DOMAIN s |->
                   Cardinality({j \in DOMAIN s :
                      \/ s[j].wordCount > s[i].wordCount
                      \/ s[j].wordCount = s[i].wordCount /\ j < i}) + 1]
    IN [k \in DOMAIN s |-> s[CHOOSE i \in DOMAIN s : rank[i] = k]]

\* forEach over candidates: push those that pass, are not yet among the key
\* messages, while fewer than maxCount are held.  The candidates are
\* distinct messages, so the ones pushed are the first eligible ones that fit
PushWhile(keyMessages, candidates, questionsOnly, maxCount) ==
    LET eligible == SelectSeq(candidates,
                              LAMBDA m : /\ questionsOnly => m.isQuestion
                                         /\ m \notin Range(keyMessages))
        room == IF maxCount > Len(keyMessages)
                THEN maxCount - Len(keyMessages) ELSE 0
    IN keyMessages \o SubSeq(eligible, 1, IF Len(eligible) < room
                                          THEN Len(eligible) ELSE room)

selectKeyMessagesForCompression(messages, maxCount) ==
    LET ends == (IF Len(messages) > 0 THEN <<messages[1]>> ELSE << >>)
                \o (IF Len(messages) > 1 THEN <<messages[Len(messages)]>>
                    ELSE << >>)
        questions == PushWhile(ends, messages, TRUE, maxCount)
        longest == PushWhile(questions, SortByWordsDesc(messages), FALSE, maxCount)
    IN SubSeq(longest, 1, IF Len(longest) < maxCount THEN Len(longest)
                          ELSE maxCount)

createCompressedMessage(messages) ==
    LET originalCount == Len(messages)
        floored == (originalCount * RatioTenths) \div 10
        compressedCount == IF floored < 1 THEN 1 ELSE floored
        keyMessages == selectKeyMessagesForCompression(messages, compressedCount)
    IN [timeRange |-> [start |-> messages[1].timestamp,
                       end |-> messages[Len(messages)].timestamp],
        speakerId |-> messages[1].speakerId,
        summary |-> [i \in DOMAIN keyMessages |-> keyMessages[i].id],
        originalMessageIds |-> [i \in DOMAIN messages |-> messages[i].id],
        wordCount |-> SumSeq([i \in DOMAIN messages |-> messages[i].wordCount]),
        compressionRatio |-> <<compressedCount, originalCount>>]

\* the last message of the group that messages[first] opens: the one ahead
\* of the first later message that has another speaker or comes more than
\* timeGroupingMinutes after the group's first message
GroupEnd(messages, first) ==
    LET opens == {i \in (first + 1)..Len(messages) :
                    \/ messages[i].speakerId # messages[first].speakerId
                    \/ messages[i].timestamp.t - messages[first].timestamp.t
                          > TimeGroupingMinutes * MinuteMs}
    IN IF opens = {} THEN Len(messages)
       ELSE (CHOOSE i \in opens : \A j \in opens : i <= j) - 1

RECURSIVE GroupWalk(_, _)
\* the forEach of groupMessagesForCompression from messages[first] on, a
\* group at a time
GroupWalk(messages, first) ==
    IF first > Len(messages) THEN << >>
    ELSE LET last == GroupEnd(messages, first)
         IN <<SubSeq(messages, first, last)>> \o GroupWalk(messages, last + 1)

groupMessagesForCompression(messages) ==
    SelectSeq(GroupWalk(messages, 1),
              LAMBDA group : Len(group) >= MinMessagesPerGroup)

CompressedIds(s) ==
    UNION {Range(s.compressedHistory[i].originalMessageIds) :
             i \in DOMAIN s.compressedHistory}

\* a compression pass that takes the messages it folds out of the session
compressContextDroppingFolded(w, s) ==
    LET folded == CompressedIds(s)
        messagesToCompress ==
            SortByTimestamp(SelectSeq(s.messages, LAMBDA m : m.id \notin folded))
    IN IF Len(messagesToCompress) < MinMessagesPerGroup
       THEN [w |-> w, s |-> s]
       ELSE LET compressedGroups ==
                    groupMessagesForCompression(messagesToCompress)
                added == [i \in DOMAIN compressedGroups |->
                            createCompressedMessage(compressedGroups[i])]
                gone == UNION {Range(added[i].originalMessageIds) :
                                 i \in DOMAIN added}
                compressed ==
                    [s EXCEPT !.compressedHistory = @ \o added,
                              !.messages =
                                  SelectSeq(@, LAMBDA m : m.id \notin gone)]
            IN [w |-> saveToStorage(Put(w, compressed)), s |-> compressed]

\* compressContext: the pair of the world and the handler's session
compressContext(w, s) ==
    LET folded == CompressedIds(s)
        messagesToCompress ==
            SortByTimestamp(SelectSeq(s.messages, LAMBDA m : m.id \notin folded))
    IN IF Len(messagesToCompress) < MinMessagesPerGroup
       THEN [w |-> w, s |-> s]
       ELSE LET compressedGroups ==
                    groupMessagesForCompression(messagesToCompress)
                compressed ==
                    [s EXCEPT !.compressedHistory =
                        @ \o [i \in DOMAIN compressedGroups |->
                                createCompressedMessage(compressedGroups[i])]]
            IN [w |-> saveToStorage(Put(w, compressed)), s |-> compressed]

\* checkForContextCompression; lastCompression.getTime() throws a TypeError
\* when the group was loaded from storage, its timeRange still strings
checkForContextCompression(w, s) ==
    IF Len(s.messages) <= CompressionThreshold THEN [w |-> w, s |-> s]
    ELSE LET lastCompression ==
                IF Len(s.compressedHistory) > 0
                THEN s.compressedHistory[Len(s.compressedHistory)].timeRange.end
                ELSE s.startTime
         IN IF ~IsDate(lastCompression)
            THEN [w |-> [w EXCEPT !.threw = TRUE], s |-> s]
            ELSE IF w.now - lastCompression.t
                      >= TimeGroupingMinutes * MinuteMs
            THEN compressContext(w, s)
            ELSE [w |-> w, s |-> s]

-----------------------------------------------------------------------------
(* addMessage *)

\* the handler enters a step
Step(w, name) == [w EXCEPT !.steps = Append(@, name)]

\* addMessage from the point where a current session exists
addMessageTo(w, session, content, isQuestion) ==
    LET speakerResult == detectSpeaker(session, content, w.now)
        attributed == ensureSpeakerExists(session, speakerResult.speakerId,
                                          speakerResult, w.now)
        message ==
            [id |-> w.nextId + 1, timestamp |-> Date(w.now),
             speakerId |-> speakerResult.speakerId, content |-> content,
             isQuestion |-> isQuestion,
             wordCount |-> calculateWordCount(content)]
        pushed == [attributed EXCEPT !.messages = Append(@, message)]
        appended ==
            Put([w EXCEPT !.nextId = @ + 1,
                          !.steps = <<"detectSpeaker", "ensureSpeakerExists",
                                      "push">>],
                pushed)
        saved == saveToStorage(Step(appended, "saveToStorage"))
        summarized ==
            checkForSummaryGeneration(Step(saved, "checkForSummaryGeneration"),
                                      pushed)
    IN checkForContextCompression(
           Step(summarized.w, "checkForContextCompression"), summarized.s).w

RECURSIVE addMessageRec(_, _, _, _)
\* addMessage; depth counts the calls of itself after startNewSession
addMessageRec(w, content, isQuestion, depth) ==
    IF getCurrentSessionId(w) = NoSession
    THEN IF depth >= MaxRecursion
         THEN [w EXCEPT !.threw = TRUE]
         ELSE addMessageRec(startNewSession(w), content, isQuestion, depth + 1)
    ELSE IF getCurrentSessionId(w) = InheritedKey
    \* detectSpeaker reads session.speakers.length: TypeError
    THEN [w EXCEPT !.threw = TRUE]
    ELSE addMessageTo(w, getCurrentSession(w), content, isQuestion)

\* addMessage that starts the session and returns without the message
addMessageStartingOnly(w, content, isQuestion) ==
    IF getCurrentSessionId(w) = NoSession
    THEN startNewSession(w)
    ELSE addMessageRec(w, content, isQuestion, 0)

addMessage(w, content, isQuestion) == addMessageRec(w, content, isQuestion, 0)

RECURSIVE addMessages(_, _, _, _)
\* n calls of addMessage in a row, in the same millisecond
addMessages(w, content, isQuestion, n) ==
    IF n = 0 \/ w.threw THEN w
    ELSE addMessages(addMessage(w, content, isQuestion), content, isQuestion, n - 1)

-----------------------------------------------------------------------------
(* Actions: one per public method, timer callback and environment event *)

\* the world at the start of a handler
Entry ==
    [W EXCEPT !.threw = FALSE, !.returned = "none", !.steps = << >>,
              !.setItemCalls = 0]

\* a count, kept up to MaxCounted
AtMost(n) == IF n > MaxCounted THEN MaxCounted ELSE n

\* the handler `op` ends in world w; a public mutating call also counts its
\* localStorage.setItem calls into the burst of calls it belongs to: the
\* calls that follow the burst's first by less than the debounce wait
Commit(w, op, public) ==
    /\ Len(w.retryTimeouts) <= MaxRetryPending
    /\ now' = w.now
    /\ storage' = w.storage
    /\ lastSummaryTime' = w.lastSummaryTime
    /\ localStorage' = w.localStorage
    /\ quotaExceeded' = w.quotaExceeded
    /\ autoSaveInterval' = w.autoSaveInterval
    /\ debounceTimeout' = w.debounceTimeout
    /\ retryTimeouts' = w.retryTimeouts
    /\ nextId' = w.nextId
    /\ threw' = w.threw
    /\ returned' = w.returned
    /\ steps' = w.steps
    /\ held' = w.held
    /\ compared' = w.compared
    /\ setItemCalls' = w.setItemCalls
    /\ lastOp' = op
    /\ calls' = IF public /\ calls < MaxCallsCounted THEN calls + 1 ELSE calls
    /\ IF ~public THEN UNCHANGED <<burstStart, burstWrites>>
       ELSE IF burstStart = NoTimer \/ now >= burstStart + DebounceWait
       THEN burstStart' = now /\ burstWrites' = AtMost(w.setItemCalls)
       ELSE /\ burstStart' = burstStart
            /\ burstWrites' = AtMost(burstWrites + w.setItemCalls)

StartNewSession == Commit(startNewSession(Entry), "startNewSession", TRUE)

\* a caller's loop: n calls of startNewSession
StartNewSessions(n, maxSessions) ==
    /\ Cardinality(DOMAIN storage.sessions) + n <= maxSessions
    /\ Commit(startNewSessions(Entry, n), "startNewSessions", TRUE)

\* continueSession with a stored id, or with one the store does not hold
ContinueSession(ids) ==
    \E sessionId \in
          (ids \cap (DOMAIN storage.sessions \cup {InheritedKey}))
              \cup {nextId + 1} :
        Commit(continueSession(Entry, sessionId), "continueSession", TRUE)

EndCurrentSession == Commit(endCurrentSession(Entry), "endCurrentSession", TRUE)

AddMessage(inputs) ==
    \E in \in inputs :
        Commit(addMessage(Entry, in[1], in[2]), "addMessage", TRUE)

\* a caller's loop: n calls of addMessage with the same arguments
AddMessages(inputs, n, maxMessages) ==
    \E in \in inputs :
        /\ getCurrentSessionId(W) \notin {NoSession, InheritedKey}
        /\ Len(getCurrentSession(W).messages) + n <= maxMessages
        /\ Commit(addMessages(Entry, in[1], in[2], n), "addMessages", TRUE)

\* the setInterval callback: debouncedSave() clears the pending timeout and
\* sets a new one
AutoSaveTick ==
    /\ autoSaveInterval # NoTimer
    /\ now >= autoSaveInterval
    /\ Commit([Entry EXCEPT !.debounceTimeout = now + DebounceWait,
                            !.autoSaveInterval = now + AutoSaveIntervalMs],
              "autoSaveTick", FALSE)

\* the debounced timeout fires: saveToStorage()
DebouncedSave ==
    /\ debounceTimeout # NoTimer
    /\ now >= debounceTimeout
    /\ Commit(saveToStorage([Entry EXCEPT !.debounceTimeout = NoTimer]),
              "debouncedSave", FALSE)

\* the retry timeout of handleStorageError fires: saveToStorage()
RetrySave ==
    /\ retryTimeouts # << >>
    /\ now >= Head(retryTimeouts)
    /\ Commit(saveToStorage([Entry EXCEPT !.retryTimeouts = Tail(@)]),
              "retrySave", FALSE)

\* cleanup(): clearInterval(this.autoSaveInterval)
Cleanup ==
    Commit([Entry EXCEPT !.autoSaveInterval = NoTimer], "cleanup", FALSE)

\* the page is loaded again: the constructor runs on what localStorage holds
Reload ==
    Commit([Entry EXCEPT
              !.storage = loadFromStorage(localStorage, now),
              !.lastSummaryTime = Undefined,
              !.held = NoHeld,
              !.autoSaveInterval = now + AutoSaveIntervalMs,
              !.debounceTimeout = NoTimer,
              !.retryTimeouts = << >>],
           "load", FALSE)

NoComparison ==
    [done |-> FALSE, a |-> {}, b |-> {}, ab |-> <<0, 0>>, ba |-> <<0, 0>>]

\* the comparison detectSpeaker makes, on two feature sets and in both
\* orders
CompareCharacteristics(characteristicsA, characteristicsB) ==
    Commit([W EXCEPT !.compared =
               [done |-> TRUE, a |-> characteristicsA, b |-> characteristicsB,
                ab |-> calculateCharacteristicSimilarity(characteristicsA,
                                                         characteristicsB),
                ba |-> calculateCharacteristicSimilarity(characteristicsB,
                                                         characteristicsA)]],
           lastOp, FALSE)

\* a caller's const session = conversationStorage.getCurrentSession(): the
\* caller holds the store's session object; seen is its value at the call
GetCurrentSession ==
    Commit([W EXCEPT !.held = [ref |-> getCurrentSessionId(W),
                               seen |-> getCurrentSession(W)]],
           lastOp, FALSE)

\* what the caller reads through the reference it holds: the object the
\* store keeps under that id
Deref(w, ref) == w.storage.sessions[ref]

\* saveSpeakerName: speaker.name = speakerNameInput.trim() on a speaker of
\* the session getCurrentSession() returns
SaveSpeakerName ==
    /\ getCurrentSessionId(W) \notin {NoSession, InheritedKey}
    /\ \E i \in DOMAIN getCurrentSession(W).speakers :
          /\ getCurrentSession(W).speakers[i].name # TypedName
          /\ Commit([W EXCEPT !.storage.sessions[getCurrentSessionId(W)]
                                   .speakers[i].name = TypedName],
                    lastOp, FALSE)

\* the clock advances
Tick(d, maxNow) ==
    /\ now + d <= maxNow
    /\ Commit([W EXCEPT !.now = now + d], lastOp, FALSE)

\* the origin's storage fills up, or is freed
QuotaChange ==
    Commit([W EXCEPT !.quotaExceeded = ~quotaExceeded], lastOp, FALSE)

\* the stored item is changed from outside: a message entry of one session
\* record is no longer an object, so that its migration throws
DamageStoredRecord ==
    \E id \in DOMAIN localStorage.data.sessions \ localStorage.malformed :
        Commit([W EXCEPT !.localStorage.malformed = @ \cup {id}],
               lastOp, FALSE)

\* the stored item is changed from outside: one session record is null
NullStoredRecord ==
    \E id \in DOMAIN localStorage.data.sessions \ localStorage.nullRecords :
        Commit([W EXCEPT !.localStorage.nullRecords = @ \cup {id}],
               lastOp, FALSE)

\* the stored item is changed from outside: one message entry no longer
\* holds a string timestamp
UntimeStoredMessage ==
    \E id \in DOMAIN localStorage.data.sessions :
        \E i \in DOMAIN localStorage.data.sessions[id].messages :
            /\ localStorage.data.sessions[id].messages[i].timestamp # Undefined
            /\ Commit([W EXCEPT !.localStorage.data.sessions[id].messages[i]
                                     .timestamp = Undefined],
                      lastOp, FALSE)

\* the stored item is one written under an earlier schema version
OlderVersionItem ==
    /\ localStorage.data.version = "2.0"
    /\ Commit([W EXCEPT !.localStorage.data.version = "1.0"],
              lastOp, FALSE)

\* the constructor, on an origin that holds no item yet
Init ==
    /\ now = 0
    /\ storage = loadFromStorage(NoItem, 0)
    /\ lastSummaryTime = Undefined
    /\ localStorage = NoItem
    /\ quotaExceeded = FALSE
    /\ autoSaveInterval = AutoSaveIntervalMs
    /\ debounceTimeout = NoTimer
    /\ retryTimeouts = << >>
    /\ nextId = 0
    /\ threw = FALSE
    /\ returned = "none"
    /\ steps = << >>
    /\ held = NoHeld
    /\ compared = NoComparison
    /\ lastOp = "constructor"
    /\ setItemCalls = 0
    /\ burstStart = NoTimer
    /\ burstWrites = 0
    /\ calls = 0

-----------------------------------------------------------------------------
(* Sessions, messages and reloads *)

Inputs ==
    {<<"", FALSE>>, <<"ok", FALSE>>, <<"Hello, how are you today?", TRUE>>,
     <<"I am doing well, thank you!", FALSE>>}

Next ==
    \/ calls < MaxCalls /\ StartNewSession
    \/ calls < MaxCalls /\ ContinueSession(DOMAIN storage.sessions)
    \/ calls < MaxCalls /\ EndCurrentSession
    \/ calls < MaxCalls /\ AddMessage(Inputs)
    \/ Tick(RecencyWindowMs, MaxNow)
    \/ Reload
    \/ DamageStoredRecord

Spec == Init /\ [][Next]_vars

\* the item localStorage holds after a save of storage
StoredItem(envelope) ==
    [data |-> serializeDates(envelope), malformed |-> {}, nullRecords |-> {}]

\* continueSession with an id the store does not hold
ContinueAbsentSession ==
    \E sessionId \in {nextId + 1, InheritedKey} :
        Commit(continueSession(Entry, sessionId), "continueSession", TRUE)

MessageCountsMatch ==
    \A id \in DOMAIN storage.sessions :
        LET s == storage.sessions[id]
        IN \A i \in DOMAIN s.speakers :
              s.speakers[i].messageCount =
                  Cardinality({j \in DOMAIN s.messages :
                                 s.messages[j].speakerId = s.speakers[i].speakerId})

ShortInputs == {in \in Inputs : Traits(in[1]).len < 3}

\* the parts of a session that addMessage writes
Written(s) == <<s.messages, s.speakers, s.summaries, s.compressedHistory>>

\* C5: addMessage with empty content, or content of fewer than 3 characters,
\* is ignored: no session gains a message, a speaker, a speaker update, a
\* summary or a compressed group, and nothing is thrown
ShortContentIgnored ==
    [][\A in \in ShortInputs :
          Commit(addMessage(Entry, in[1], in[2]), "addMessage", TRUE)
            => /\ ~threw'
               /\ \A id \in DOMAIN storage'.sessions :
                     Written(storage'.sessions[id]) =
                        IF id \in DOMAIN storage.sessions
                        THEN Written(storage.sessions[id])
                        ELSE <<(<< >>), << >>, << >>, << >>>>]_vars

\* C8: saving the envelope and loading it back gives the sessions as they
\* are in memory, every timestamp a Date equal to the original
RoundTrip ==
    loadFromStorage([data |-> serializeDates(storage), malformed |-> {}, nullRecords |-> {}],
                    now).sessions = storage.sessions

-----------------------------------------------------------------------------
(* Long sessions: context compression *)

Asker == {<<"Hello, how are you today?", TRUE>>}

Answerer == {<<"I am doing well, thank you!", FALSE>>}

\* some session holds more messages than the compression threshold
LongSession ==
    \E id \in DOMAIN storage.sessions :
        Len(storage.sessions[id].messages) > CompressionThreshold

\* reloads of sessions below the threshold are those of Spec
NextCompress ==
    \/ calls < MaxCompressCalls /\ AddMessage(Asker)
    \/ calls < MaxCompressCalls /\ AddMessages(Answerer, BurstSize, MaxMessages)
    \/ Tick(RecencyWindowMs, MaxRecencyNow)
    \/ Tick(TimeGroupingMinutes * MinuteMs, MaxCompressNow)
    \/ LongSession /\ Reload
    \/ LongSession /\ DamageStoredRecord

SpecCompress == Init /\ [][NextCompress]_vars

\* C2: in every session the compressed groups fold pairwise disjoint sets of
\* message ids, each the id of a message of the session
GroupsDisjointAndPresent ==
    \A id \in DOMAIN storage.sessions :
        LET s == storage.sessions[id]
            ids(i) == Range(s.compressedHistory[i].originalMessageIds)
        IN /\ \A i, j \in DOMAIN s.compressedHistory :
                 i # j => ids(i) \cap ids(j) = {}
           /\ CompressedIds(s) \subseteq {s.messages[k].id : k \in DOMAIN s.messages}

\* the compressed groups of session id after one compression check, and
\* after a second check that follows it at once
GroupsAfterCheck(w, id) ==
    checkForContextCompression(w, w.storage.sessions[id]).s.compressedHistory

GroupsAfterTwoChecks(w, id) ==
    LET first == checkForContextCompression(w, w.storage.sessions[id])
    IN checkForContextCompression(first.w, first.s).s.compressedHistory

\* C3: a compression check that follows another, no message added in
\* between, adds no group
CompressionIdempotent ==
    \A id \in DOMAIN storage.sessions :
        GroupsAfterTwoChecks(W, id) = GroupsAfterCheck(W, id)

-----------------------------------------------------------------------------
(* A full origin: quota failures of localStorage.setItem *)

FirstSession == {1}

NextQuota ==
    \/ calls < MaxQuotaCalls /\ StartNewSession
    \/ calls < MaxQuotaCalls /\ StartNewSessions(RetainedSessions, MaxSessions)
    \/ calls < MaxQuotaCalls /\ ContinueSession(FirstSession)
    \/ QuotaChange
    \/ RetrySave
    \/ Tick(RetryDelay, MaxQuotaNow)

SpecQuota == Init /\ [][NextQuota]_vars

\* the world at the start of a handler whose writes all succeed
NoFailure == [Entry EXCEPT !.quotaExceeded = FALSE]

\* getCurrentSession() returns the same in both worlds: null in both, or
\* the same session with the same contents
SameCurrentSession(v, w) ==
    /\ getCurrentSessionId(v) = getCurrentSessionId(w)
    /\ getCurrentSessionId(v) # NoSession
          => getCurrentSession(v) = getCurrentSession(w)

\* C6: after a call, whether its save failed on quota or not, and after a
\* retried save, getCurrentSession() returns what it would have returned had
\* no write failed
CurrentSessionUnaffected ==
    [][/\ StartNewSession =>
            SameCurrentSession(W', startNewSession(NoFailure))
       /\ StartNewSessions(RetainedSessions, MaxSessions) =>
            SameCurrentSession(W', startNewSessions(NoFailure, RetainedSessions))
       /\ \A sessionId \in DOMAIN storage.sessions :
            Commit(continueSession(Entry, sessionId), "continueSession", TRUE)
              => SameCurrentSession(W', continueSession(NoFailure, sessionId))
       /\ RetrySave => SameCurrentSession(W', W)]_vars

\* C7: the retry of a failed write is the last one: when it fires, failing
\* or not, it leaves no new retry scheduled
RetriedOnce ==
    [][RetrySave => retryTimeouts' = Tail(retryTimeouts)]_vars

-----------------------------------------------------------------------------
(* Timers: the auto-save interval, its debounced save, and teardown *)

NextTimers ==
    \/ calls < MaxTimerCalls /\ AddMessage(Asker)
    \/ calls < MaxTimerCalls /\ StartNewSession
    \/ calls < MaxTimerCalls /\ EndCurrentSession
    \/ AutoSaveTick
    \/ DebouncedSave
    \/ Cleanup
    \/ Tick(DebounceWait, MaxTimerNow)

SpecTimers == Init /\ [][NextTimers]_vars

\* C9: the mutating calls of one debounce window make a single call of
\* localStorage.setItem between them
OneWritePerBurst == burstWrites <= 1

\* the stored item holds the in-memory state: its serialized form, or no
\* item for a store that never held a session
Persisted ==
    IF localStorage = NoItem THEN storage = DefaultStorage
    ELSE localStorage.data = serializeDates(storage)

\* C10: once cleanup() has returned, no debounced save and no retry is
\* pending, and the stored item holds the in-memory state
NothingPendingAfterCleanup ==
    lastOp = "cleanup" =>
        /\ debounceTimeout = NoTimer
        /\ retryTimeouts = << >>
        /\ Persisted

-----------------------------------------------------------------------------
(* Timed summaries over minutes of conversation, sessions and reloads *)

NextSummaries ==
    \/ calls < MaxSummaryCalls /\ AddMessage(Asker)
    \/ calls < MaxSummaryCalls /\ StartNewSession
    \/ calls < MaxSummaryCalls /\ ContinueSession(DOMAIN storage.sessions)
    \/ Tick(IntervalMinutes * MinuteMs, MaxSummaryNow)
    \/ Reload

SpecSummaries == Init /\ [][NextSummaries]_vars

\* the messages of session s that generateTimedSummary counts in a window
InWindow(s, timeRange) ==
    {j \in DOMAIN s.messages :
        /\ s.messages[j].timestamp.t >= timeRange.start.t
        /\ s.messages[j].timestamp.t <= timeRange.end.t}

\* C11: in every session each summary's window starts no earlier than the
\* previous summary's window ends, and no message is counted in the windows
\* of two summaries
SummaryWindowsDisjoint ==
    \A id \in DOMAIN storage.sessions :
        LET s == storage.sessions[id]
        IN /\ \A i \in 1..(Len(s.summaries) - 1) :
                 s.summaries[i + 1].timeRange.start.t
                    >= s.summaries[i].timeRange.end.t
           /\ \A i, j \in DOMAIN s.summaries :
                 i # j => InWindow(s, s.summaries[i].timeRange)
                             \cap InWindow(s, s.summaries[j].timeRange) = {}

-----------------------------------------------------------------------------
(* Loads of stored items *)

NextLoads ==
    \/ calls < MaxLoadCalls /\ AddMessage(Asker)
    \/ calls < MaxLoadCalls /\ StartNewSession
    \/ Tick(RecencyWindowMs, MaxNow)
    \/ Reload
    \/ DamageStoredRecord
    \/ NullStoredRecord
    \/ OlderVersionItem
    \/ UntimeStoredMessage

SpecLoads == Init /\ [][NextLoads]_vars

\* the session records of the stored item whose migration fails
FailingRecords == localStorage.malformed \cup localStorage.nullRecords

\* the session records of the stored item that hold a message entry without
\* a string timestamp
UntimedRecords ==
    {id \in DOMAIN localStorage.data.sessions :
        \E i \in DOMAIN localStorage.data.sessions[id].messages :
            localStorage.data.sessions[id].messages[i].timestamp = Undefined}

\* C12: a load of a stored item keeps the item's currentSessionId and every
\* session record; a record whose migration fails comes out with a Date
\* startTime, no endTime, no messages and no summaries; every other record
\* comes out as stored, its start and message times Dates
LoadResetsOnlyFailedRecord ==
    [][Reload /\ localStorage.data.version = "2.0" =>
          /\ storage'.currentSessionId = localStorage.data.currentSessionId
          /\ DOMAIN storage'.sessions = DOMAIN localStorage.data.sessions
          /\ \A id \in DOMAIN localStorage.data.sessions :
                LET loaded == storage'.sessions[id]
                IN IF id \in FailingRecords
                   THEN /\ IsDate(loaded.startTime)
                        /\ loaded.endTime = Undefined
                        /\ loaded.messages = << >>
                        /\ loaded.summaries = << >>
                   ELSE /\ id \notin UntimedRecords =>
                              serializeSession(loaded)
                                 = localStorage.data.sessions[id]
                        /\ IsDate(loaded.startTime)
                        /\ \A j \in DOMAIN loaded.messages :
                              IsDate(loaded.messages[j].timestamp)]_vars

\* C13: a load of a stored item whose version tag is not the current one
\* returns the item's sessions and currentSessionId, the start and message
\* times of the sessions Dates
OlderVersionMigrated ==
    [][Reload /\ localStorage.data.version = "1.0" =>
          /\ storage'.currentSessionId = localStorage.data.currentSessionId
          /\ DOMAIN storage'.sessions = DOMAIN localStorage.data.sessions
          /\ \A id \in DOMAIN localStorage.data.sessions \ FailingRecords :
                /\ IsDate(storage'.sessions[id].startTime)
                /\ \A j \in DOMAIN storage'.sessions[id].messages :
                      IsDate(storage'.sessions[id].messages[j].timestamp)]_vars

SessionCalls ==
    {"startNewSession", "continueSession", "endCurrentSession", "addMessage"}

\* C18: over startNewSession, continueSession, endCurrentSession and
\* addMessage calls, a session gets its endTime in the call that makes it
\* inactive, and an endTime once set is neither changed nor cleared
EndTimeSetOnce ==
    [][lastOp' \in SessionCalls =>
          \A id \in DOMAIN storage.sessions :
             LET before == storage.sessions[id]
                 after == storage'.sessions[id]
             IN /\ id \in DOMAIN storage'.sessions
                /\ before.endTime # Undefined => after.endTime = before.endTime
                /\ before.endTime = Undefined /\ after.endTime # Undefined
                      => before.isActive /\ ~after.isActive]_vars

\* C19: in every session the message timestamps are non-decreasing in list
\* order
MessagesInTimeOrder ==
    \A id \in DOMAIN storage.sessions :
        LET messages == storage.sessions[id].messages
        IN \A i \in 1..(Len(messages) - 1) :
              messages[i].timestamp.t <= messages[i + 1].timestamp.t

\* C20: an addMessage call that returns has entered its steps in this
\* order: speaker attribution, speaker record, append, save, compression
\* check, summary check
AddMessageStepOrder ==
    lastOp = "addMessage" /\ steps # << >> /\ ~threw
        => steps = <<"detectSpeaker", "ensureSpeakerExists", "push",
                     "saveToStorage", "checkForContextCompression",
                     "checkForSummaryGeneration">>

-----------------------------------------------------------------------------
(* Session lookups by id *)

NextLookups ==
    \/ calls < MaxLookupCalls /\ StartNewSession
    \/ /\ calls < MaxLookupCalls
       /\ ContinueSession(DOMAIN storage.sessions \cup {InheritedKey})
    \/ calls < MaxLookupCalls /\ EndCurrentSession
    \/ calls < MaxLookupCalls /\ AddMessage(Asker)
    \/ Tick(RecencyWindowMs, MaxNow)
    \/ Reload

SpecLookups == Init /\ [][NextLookups]_vars

\* C15: a continueSession call with an id the store does not hold returns
\* false, does not throw, leaves the store and the current session as they
\* were and writes nothing
ContinueAbsentChangesNothing ==
    [][ContinueAbsentSession =>
          /\ returned' = "false"
          /\ ~threw'
          /\ storage' = storage
          /\ setItemCalls' = 0
          /\ localStorage' = localStorage]_vars

-----------------------------------------------------------------------------
(* Speaker attribution, summaries and compression triggers *)

\* the speakers of a session whose Jaccard similarity with the features is
\* the greatest, given as indexes into the speaker list
MostSimilar(session, features) ==
    LET inter(i) == Cardinality(session.speakers[i].characteristics
                                   \cap features)
        union(i) == Cardinality(session.speakers[i].characteristics
                                   \cup features)
    IN {i \in DOMAIN session.speakers :
          \A j \in DOMAIN session.speakers :
             inter(i) * union(j) >= inter(j) * union(i)}

\* the session's last message is less than the recency window old
LastMessageRecent(session, clock) ==
    /\ session.messages # << >>
    /\ clock - session.messages[Len(session.messages)].timestamp.t
          < RecencyWindowMs

NextSummaryScenario ==
    \/ calls = 0 /\ StartNewSession
    \/ calls \in 1..3 /\ AddMessage(Inputs)
    \/ /\ calls < 4
       /\ now + ScenarioTick < IntervalMinutes * MinuteMs
       /\ Tick(ScenarioTick, MaxScenarioNow)
    \/ calls = 4 /\ Tick(ScenarioTick, MaxScenarioNow)
    \/ /\ calls = 4
       /\ now - getCurrentSession(W).messages[3].timestamp.t
             > IntervalMinutes * MinuteMs
       /\ AddMessage(Inputs)

SpecSummaryScenario == Init /\ [][NextSummaryScenario]_vars

\* C22: after a session is started, three messages are added, more than the
\* summary interval passes and one more message is added, the session holds
\* exactly one summary, and its timeRange.end is not after the current time
OneSummaryAfterInterval ==
    calls = 5 =>
        LET session == getCurrentSession(W)
        IN /\ Len(session.messages) = 4
           /\ Len(session.summaries) = 1
           /\ session.summaries[1].timeRange.end.t <= now

\* the fourth message has been added after the interval
FourthMessageAdded ==
    /\ calls = 5
    /\ lastOp = "addMessage"
    /\ now - storage.sessions[storage.currentSessionId].messages[3].timestamp.t
          > IntervalMinutes * MinuteMs

-----------------------------------------------------------------------------
(* Summaries of windows with many questions and long messages *)

Lecturer == {<<LongText, FALSE>>}

NextKeyPoints ==
    \/ calls < MaxKeyPointCalls /\ AddMessage(Asker \cup Lecturer)
    \/ /\ calls < MaxKeyPointCalls
       /\ AddMessages(Asker \cup Lecturer, KeyPointBurst, MaxWindowMessages)
    \/ Tick(IntervalMinutes * MinuteMs, MaxKeyPointNow)
    \/ Reload

SpecKeyPoints == Init /\ [][NextKeyPoints]_vars

\* the messages a summary was made from: of the session's messages with a
\* timestamp in the summary's window, as many as its speakerStats count,
\* from the first on
Included(s, summary) ==
    LET inWindow == SelectSeq(s.messages,
                       LAMBDA m : /\ m.timestamp.t >= summary.timeRange.start.t
                                  /\ m.timestamp.t <= summary.timeRange.end.t)
        counted == SumSeq([i \in DOMAIN summary.speakerStats |->
                             summary.speakerStats[i].messageCount])
    IN SubSeq(inWindow, 1, counted)

\* C23: every summary of every session has at most maxKeyPoints (5) key
\* points
KeyPointsCapped ==
    \A id \in DOMAIN storage.sessions :
        \A k \in DOMAIN storage.sessions[id].summaries :
            Len(storage.sessions[id].summaries[k].keyPoints) <= MaxKeyPoints

\* a summary was made from more than maxKeyPoints questions and long messages
ManyNotedMessages ==
    \E id \in DOMAIN storage.sessions :
        \E k \in DOMAIN storage.sessions[id].summaries :
            LET s == storage.sessions[id]
            IN /\ Len(KeyPointsOf(Included(s, s.summaries[k]))) > MaxKeyPoints
               /\ Len(s.summaries[k].keyPoints) = MaxKeyPoints

\* C24: for every summary and every question among the messages it was made
\* from, the summary's key points hold a Q-tagged key point of that message
QuestionsHaveKeyPoints ==
    \A id \in DOMAIN storage.sessions :
        \A k \in DOMAIN storage.sessions[id].summaries :
            LET s == storage.sessions[id]
                included == Included(s, s.summaries[k])
            IN \A j \in DOMAIN included :
                  included[j].isQuestion =>
                     \E p \in DOMAIN s.summaries[k].keyPoints :
                        /\ s.summaries[k].keyPoints[p].tag = "Q"
                        /\ s.summaries[k].keyPoints[p].messageId
                              = included[j].id

-----------------------------------------------------------------------------
(* Sixty alternating messages, one second apart *)

\* the number of messages of the current session
MessagesAdded ==
    IF getCurrentSessionId(W) = NoSession THEN 0
    ELSE Len(getCurrentSession(W).messages)

\* the senders take turns: a question, then an answer
NextAlternating ==
    \/ /\ MessagesAdded < ScenarioMessages
       /\ now = MessagesAdded * ScenarioSpacing
       /\ MessagesAdded % 2 = 0
       /\ AddMessage(Asker)
    \/ /\ MessagesAdded < ScenarioMessages
       /\ now = MessagesAdded * ScenarioSpacing
       /\ MessagesAdded % 2 = 1
       /\ AddMessage(Answerer)
    \/ /\ now < MessagesAdded * ScenarioSpacing
       /\ Tick(ScenarioSpacing, ScenarioMessages * ScenarioSpacing)

SpecAlternating == Init /\ [][NextAlternating]_vars

\* C25: once the 51st of the alternating messages is added, the session's
\* compressedHistory holds at least one group, the groups hold fewer than 60
\* message ids in all, and no message id is in two groups
CompressedAfterFiftyOne ==
    MessagesAdded > CompressionThreshold =>
        LET history == getCurrentSession(W).compressedHistory
        IN /\ Len(history) >= 1
           /\ SumSeq([g \in DOMAIN history |->
                        Len(history[g].originalMessageIds)])
                 < ScenarioMessages
           /\ \A g, h \in DOMAIN history :
                 g # h => Range(history[g].originalMessageIds)
                             \cap Range(history[h].originalMessageIds) = {}

-----------------------------------------------------------------------------
(* Retention of sessions by cleanupOldSessions *)

\* a step of a handler whose save failed, so that cleanupOldSessions ran
CleanupRan ==
    /\ quotaExceeded
    /\ setItemCalls' > 0
    /\ \/ StartNewSession
       \/ StartNewSessions(RetainedSessions, MaxSessions)
       \/ ContinueSession(FirstSession)
       \/ RetrySave

\* C26: after a handler in which cleanupOldSessions ran, the store holds at
\* most 10 sessions, and no session it holds was started before a session
\* that was removed, whether stored before the handler or created by it
MostRecentRetained ==
    [][CleanupRan =>
          LET created == (nextId + 1)..nextId'
              removed == (DOMAIN storage.sessions \cup created)
                            \ DOMAIN storage'.sessions
              started(id) == IF id \in DOMAIN storage.sessions
                             THEN storage.sessions[id].startTime.t
                             ELSE now
          IN /\ Cardinality(DOMAIN storage'.sessions) <= RetainedSessions
             /\ \A kept \in DOMAIN storage'.sessions : \A id \in removed :
                   storage'.sessions[kept].startTime.t >= started(id)]_vars

\* a handler's cleanup has removed sessions and kept one started later than
\* the first ones
OldSessionsRemoved ==
    /\ quotaExceeded
    /\ setItemCalls > 0
    /\ lastOp \in {"startNewSession", "startNewSessions"}
    /\ Cardinality(DOMAIN storage.sessions) = RetainedSessions
    /\ nextId > RetainedSessions
    /\ \E id \in DOMAIN storage.sessions :
          storage.sessions[id].startTime.t > 0

-----------------------------------------------------------------------------
(* Sessions handed to callers *)

NextSnapshots ==
    \/ calls < MaxSnapshotCalls /\ AddMessage(Inputs)
    \/ calls < MaxSnapshotCalls /\ StartNewSession
    \/ GetCurrentSession
    \/ SaveSpeakerName
    \/ Tick(RecencyWindowMs, MaxNow)

SpecSnapshots == Init /\ [][NextSnapshots]_vars

\* C27: a session obtained from getCurrentSession() reads the same after
\* later store operations as when it was obtained, and a change a caller
\* makes to a session it obtained leaves the store's sessions as they were
SnapshotsImmutable ==
    [][/\ SaveSpeakerName => storage' = storage
       /\ held.ref # NoSession /\ held' = held
             => Deref(W', held.ref) = held.seen]_vars

-----------------------------------------------------------------------------
(* What happens by itself: the clock and the timers *)

NextAutomatic ==
    \/ calls < MaxAutomaticCalls /\ AddMessage(Asker)
    \/ AutoSaveTick
    \/ DebouncedSave
    \/ Tick(AutoSaveIntervalMs, MaxAutomaticNow)

\* time passes and due timer callbacks run; callers need not call
SpecAutomatic ==
    /\ Init
    /\ [][NextAutomatic]_vars
    /\ WF_vars(Tick(AutoSaveIntervalMs, MaxAutomaticNow))
    /\ WF_vars(AutoSaveTick)
    /\ WF_vars(DebouncedSave)

\* the messages of a session that are in the window of none of its summaries
Uncovered(s) ==
    {j \in DOMAIN s.messages :
        \A k \in DOMAIN s.summaries : j \notin InWindow(s, s.summaries[k].timeRange)}

\* the current session is active, holds messages no summary covers, and the
\* summary interval has passed since its last summary, or since its start
SummaryDue ==
    /\ getCurrentSessionId(W) # NoSession
    /\ LET s == getCurrentSession(W)
           last == IF s.summaries = << >> THEN s.startTime.t
                   ELSE s.summaries[Len(s.summaries)].timeRange.end.t
       IN /\ s.isActive
          /\ Uncovered(s) # {}
          /\ now - last >= IntervalMinutes * MinuteMs

\* every message of the current session is covered by a summary
AllCovered ==
    /\ getCurrentSessionId(W) # NoSession
    /\ Uncovered(getCurrentSession(W)) = {}

\* C28: whenever the current session holds uncovered messages and the
\* summary interval has passed, eventually a summary covers them
SummaryEventuallyGenerated == SummaryDue ~> AllCovered

-----------------------------------------------------------------------------
(* Similarity of feature sets *)

\* part of the tag vocabulary, and the feature sets compared: every set of
\* these tags, the empty one included, and the tags of each message text
SampleTags ==
    {"short_messages", "asks_questions", "how_questions", "expressive",
     "polite"}

FeatureSets ==
    (SUBSET SampleTags)
       \cup {analyzeMessageCharacteristics(i[1]) : i \in Inputs \cup Lecturer}

NextSimilarity ==
    \E A \in FeatureSets, B \in FeatureSets : CompareCharacteristics(A, B)

SpecSimilarity == Init /\ [][NextSimilarity]_vars

-----------------------------------------------------------------------------
(* When compressed groups are added *)

\* the groups of the session stored under id, none if it is not stored
GroupsOf(sessions, id) ==
    IF id \in DOMAIN sessions THEN sessions[id].compressedHistory ELSE << >>

\* the time the compression check measures from: the end of the last group
\* the session had, or the session's start
LastCompressionEnd(before, after, id) ==
    IF GroupsOf(before, id) # << >>
    THEN before[id].compressedHistory[Len(before[id].compressedHistory)]
            .timeRange.end.t
    ELSE after[id].startTime.t

\* a step left the session stored under id with more groups than it had
GroupsAdded(id) ==
    /\ id \in DOMAIN storage'.sessions
    /\ Len(GroupsOf(storage'.sessions, id)) > Len(GroupsOf(storage.sessions, id))

\* C30: a step adds groups to a session only if it is a call of addMessage,
\* the session then holds more than 50 messages, and more than 2 minutes
\* have passed since the end of its last group, or since its start
GroupsAddedOnlyPastInterval ==
    [][\A id \in DOMAIN storage'.sessions :
          GroupsAdded(id) =>
             /\ lastOp' \in {"addMessage", "addMessages"}
             /\ Len(storage'.sessions[id].messages) > CompressionThreshold
             /\ now' - LastCompressionEnd(storage.sessions,
                                          storage'.sessions, id)
                   > TimeGroupingMinutes * MinuteMs]_vars

\* the same with the comparison the code makes: at least 2 minutes
GroupsAddedOnlyFromInterval ==
    [][\A id \in DOMAIN storage'.sessions :
          GroupsAdded(id) =>
             /\ lastOp' \in {"addMessage", "addMessages"}
             /\ Len(storage'.sessions[id].messages) > CompressionThreshold
             /\ now' - LastCompressionEnd(storage.sessions,
                                          storage'.sessions, id)
                   >= TimeGroupingMinutes * MinuteMs]_vars

-----------------------------------------------------------------------------
(* Several compression passes over one session *)

\* two speakers, a long run of one of them, compression intervals apart
NextPasses ==
    \/ calls < MaxPassCalls /\ AddMessage(Asker)
    \/ calls < MaxPassCalls /\ AddMessages(Answerer, BurstSize, MaxPassMessages)
    \/ Tick(TimeGroupingMinutes * MinuteMs, MaxPassNow)

SpecPasses == Init /\ [][NextPasses]_vars

\* the positions in the session's message list of the messages a group folds
FoldedPositions(s, group) ==
    {k \in DOMAIN s.messages :
        s.messages[k].id \in Range(group.originalMessageIds)}

\* C31: in every session every compressed group folds messages of the
\* group's speaker that stand next to one another in the session's message
\* list, no other message between them
GroupsContiguous ==
    \A id \in DOMAIN storage.sessions :
        LET s == storage.sessions[id]
        IN \A i \in DOMAIN s.compressedHistory :
              LET at == FoldedPositions(s, s.compressedHistory[i])
              IN /\ \A k \in at :
                       s.messages[k].speakerId = s.compressedHistory[i].speakerId
                 /\ \A k, m \in at :
                       \A between \in k..m : between \in at

\* C32: the key messages chosen for every compressed group include the
\* group's first message and its last message
KeyMessagesHoldEnds ==
    \A id \in DOMAIN storage.sessions :
        \A i \in DOMAIN storage.sessions[id].compressedHistory :
            LET group == storage.sessions[id].compressedHistory[i]
                folded == group.originalMessageIds
            IN /\ folded[1] \in Range(group.summary)
               /\ folded[Len(folded)] \in Range(group.summary)

-----------------------------------------------------------------------------
(* Restarts of a long session *)

\* the program's own saves and page loads only: the stored item is always
\* one saveToStorage wrote
NextRestarts ==
    \/ calls < MaxRestartCalls /\ AddMessage(Asker)
    \/ calls < MaxRestartCalls /\ AddMessages(Answerer, BurstSize, MaxMessages)
    \/ Tick(TimeGroupingMinutes * MinuteMs, MaxRestartNow)
    \/ getCurrentSessionId(W) # NoSession /\ Reload

SpecRestarts == Init /\ [][NextRestarts]_vars

\* C33: addMessage never ends by throwing, also on a session resumed by a
\* page load from the item the program stored
AddMessageCompletes ==
    [][calls' # calls /\ lastOp' \in {"addMessage", "addMessages"}
          => ~threw']_vars

-----------------------------------------------------------------------------
(* The life of sessions: active, current, ended *)

\* the session calls and addMessage on a store that starts empty, with
\* writes that fail and succeed, so that cleanupOldSessions runs
NextLifecycle ==
    \/ calls < MaxLifecycleCalls /\ StartNewSession
    \/ calls < MaxLifecycleCalls /\ StartNewSessions(RetainedSessions, MaxSessions)
    \/ calls < MaxLifecycleCalls /\ ContinueSession(DOMAIN storage.sessions)
    \/ calls < MaxLifecycleCalls /\ EndCurrentSession
    \/ calls < MaxLifecycleCalls /\ AddMessage(Asker)
    \/ QuotaChange
    \/ RetrySave
    \/ Tick(RetryDelay, MaxQuotaNow)

SpecLifecycle == Init /\ [][NextLifecycle]_vars

\* C34: a stored session is active exactly if it is the current session,
\* and has an endTime exactly if it is not active
ActiveIffCurrent ==
    \A id \in DOMAIN storage.sessions :
        /\ storage.sessions[id].isActive <=> storage.currentSessionId = id
        /\ storage.sessions[id].endTime # Undefined
              <=> ~storage.sessions[id].isActive

\* continueSession has made an ended session the current one again, and a
\* session started after it is ended
EndedSessionResumed ==
    /\ lastOp = "continueSession"
    /\ returned = "true"
    /\ \E id, later \in DOMAIN storage.sessions :
          /\ storage.currentSessionId = id
          /\ ~storage.sessions[later].isActive
          /\ storage.sessions[later].startTime.t
                > storage.sessions[id].startTime.t

-----------------------------------------------------------------------------
(* What is stored when a public call returns *)

\* every public call, summaries and compression passes included; setItem
\* always succeeds
NextPersist ==
    \/ calls < MaxPersistCalls /\ StartNewSession
    \/ calls < MaxPersistCalls /\ ContinueSession(DOMAIN storage.sessions)
    \/ calls < MaxPersistCalls /\ EndCurrentSession
    \/ calls < MaxPersistCalls /\ AddMessage(Asker)
    \/ calls < MaxPersistCalls /\ AddMessages(Answerer, BurstSize, MaxMessages)
    \/ Tick(IntervalMinutes * MinuteMs, MaxPersistNow)

SpecPersist == Init /\ [][NextPersist]_vars

\* C35: when a public call returns, either it changed nothing, in memory or
\* stored, or the stored item is the serialization of the envelope in memory
PersistedAfterCall ==
    [][calls' # calls /\ ~threw' =>
          \/ localStorage' = StoredItem(storage')
          \/ storage' = storage /\ localStorage' = localStorage]_vars

\* addMessage has just added a summary to the current session, which holds
\* more messages than the compression threshold
SummaryAddedToLongSession ==
    /\ lastOp = "addMessage"
    /\ getCurrentSessionId(W) # NoSession
    /\ LET s == getCurrentSession(W)
       IN /\ s.summaries # << >>
          /\ s.summaries[Len(s.summaries)].timestamp = Date(now)
          /\ s.compressedHistory # << >>
          /\ Len(s.messages) > CompressionThreshold

-----------------------------------------------------------------------------
(* Recovery from failed writes *)

\* startNewSession and the start of the failures at time 0; from then on only
\* the clock, the timers, and the storage accepting writes again
NextRecovery ==
    \/ now = 0 /\ calls < MaxRecoveryCalls /\ StartNewSession
    \/ (now = 0 \/ quotaExceeded) /\ QuotaChange
    \/ RetrySave
    \/ AutoSaveTick
    \/ DebouncedSave
    \/ Tick(RetryDelay, MaxRecoveryNow)

\* time passes and a due retry timeout runs; the auto-save timers may run
SpecRecovery ==
    /\ Init
    /\ [][NextRecovery]_vars
    /\ WF_vars(Tick(RetryDelay, MaxRecoveryNow))
    /\ WF_vars(RetrySave)

\* a failed save has left its retry pending, the storage accepts writes
\* again, and no public call follows
WritesAcceptedAgain ==
    /\ ~quotaExceeded
    /\ now > 0
    /\ now + RetryDelay <= MaxRecoveryNow
    /\ retryTimeouts # << >>

\* the stored item is the envelope in memory and no retry is pending
StoredAndSettled ==
    /\ localStorage = StoredItem(storage)
    /\ retryTimeouts = << >>

\* C36: once the storage accepts writes again after failed saves, the timers
\* alone bring the stored item to the envelope in memory, no retry pending
RecoversByTimers == WritesAcceptedAgain ~> StoredAndSettled

\* a retry timeout has just stored the envelope after writes had failed:
\* sessions are stored and nothing is pending
RetryStoredEnvelope ==
    /\ lastOp = "retrySave"
    /\ now > 0
    /\ storage.sessions # << >>
    /\ StoredAndSettled

-----------------------------------------------------------------------------
(* addMessage without a current session *)

\* the sessions a step has added to the store
SessionsStarted == DOMAIN storage'.sessions \ DOMAIN storage.sessions

-----------------------------------------------------------------------------
(* Speaker records under addMessage *)

\* the speaker records of a session before the step, none for a session the
\* step has started
SpeakersBefore(id) ==
    IF id \in DOMAIN storage.sessions THEN storage.sessions[id].speakers
    ELSE << >>

\* the record of speaker S after the step, given its record before
Attributed(before, after, features) ==
    /\ after.speakerId = before.speakerId
    /\ after.name = before.name
    /\ after.firstDetected = before.firstDetected
    /\ after.characteristics = before.characteristics \cup features
    /\ after.messageCount = before.messageCount + 1
    /\ after.lastActive = Date(now)

-----------------------------------------------------------------------------
(* Speaker statistics of a summary *)

\* the number of summaries session id holds before the step
SummariesBefore(id) ==
    IF id \in DOMAIN storage.sessions
    THEN Len(storage.sessions[id].summaries)
    ELSE 0

\* the summary's speakerStats are those of the messages of s in its window
StatsOfWindow(s, summary) ==
    LET window == InWindow(s, summary.timeRange)
        by(speakerId) == {j \in window : s.messages[j].speakerId = speakerId}
        stats == summary.speakerStats
    IN /\ \A j \in window :
             Cardinality({i \in DOMAIN stats :
                             stats[i].speakerId = s.messages[j].speakerId}) = 1
       /\ \A i \in DOMAIN stats :
             /\ by(stats[i].speakerId) # {}
             /\ stats[i].messageCount = Cardinality(by(stats[i].speakerId))
             /\ stats[i].questionsAsked =
                    Cardinality({j \in by(stats[i].speakerId) :
                                    s.messages[j].isQuestion})

\* C39: a summary that an addMessage call adds has exactly one speakerStats
\* entry for each speaker with a message in its window and none for another
\* speaker, and each entry counts that speaker's messages and questions in
\* the window
SpeakerStatsCoverWindow ==
    [][(calls' # calls /\ lastOp' = "addMessage")
       => \A id \in DOMAIN storage'.sessions :
             \A i \in DOMAIN storage'.sessions[id].summaries :
                i > SummariesBefore(id)
                   => StatsOfWindow(storage'.sessions[id],
                                    storage'.sessions[id].summaries[i])]_vars

\* the summary just made covers two speakers, one of them with several
\* messages, and both questions and statements
TwoSpeakersSummarized ==
    /\ lastOp = "addMessage"
    /\ \E id \in DOMAIN storage.sessions :
          LET s == storage.sessions[id]
          IN /\ s.summaries # << >>
             /\ LET summary == s.summaries[Len(s.summaries)]
                IN /\ summary.timestamp = Date(now)
                   /\ Len(summary.speakerStats) = 2
                   /\ \E i \in DOMAIN summary.speakerStats :
                         /\ summary.speakerStats[i].messageCount > 1
                         /\ summary.speakerStats[i].questionsAsked > 0
                         /\ summary.speakerStats[i].questionsAsked
                               < summary.speakerStats[i].messageCount

-----------------------------------------------------------------------------
(* Sessions of more than 200 messages *)

\* checkPerformanceThresholds takes the branch that warns 'Large message
\* count detected, skipping some operations' and returns; the method
\* returns nothing and sets nothing, so checkForSummaryGeneration and
\* checkForContextCompression go on after it on either branch
LargeSession(session) ==
    Len(session.messages) > LargeMessageCount

\* a caller fills a session in runs of addMessage calls, then goes on with
\* single calls as time passes
NextHeavy ==
    \/ calls < MaxHeavyCalls /\ AddMessage(Asker)
    \/ /\ calls < MaxHeavyCalls
       /\ now = 0
       /\ AddMessages(Answerer, BurstSize, MaxHeavyMessages)
    \/ Tick(IntervalMinutes * MinuteMs, MaxHeavyNow)

SpecHeavy == Init /\ [][NextHeavy]_vars

\* C40: an addMessage call on a current session of more than 200 messages
\* adds no summary and no compressed group
HeavyOperationsSkipped ==
    [][(/\ calls' # calls
        /\ lastOp' = "addMessage"
        /\ getCurrentSessionId(W) \in DOMAIN storage.sessions
        /\ LargeSession(getCurrentSession(W)))
       => LET id == getCurrentSessionId(W)
          IN /\ Len(storage'.sessions[id].summaries)
                   = Len(storage.sessions[id].summaries)
             /\ Len(storage'.sessions[id].compressedHistory)
                   = Len(storage.sessions[id].compressedHistory)]_vars

=============================================================================
